---- MODULE Spec2Model ----
(***************************************************************************)
(* smart-regwatch: content-addressed document ingestion and versioning     *)
(* (storage/sqlite_db.py), archive expansion and batch download            *)
(* (agents/extraction_agent.py) and the per-document stage pipeline        *)
(* (agents/orchestrator.py and the agents it calls).                       *)
(*                                                                         *)
(* Abstractions.  A file name is a record [stem, ext]; a URL is a record   *)
(* [dir, file, frag] where frag is <<>> for a discovered link and          *)
(* <<inner path>> for the synthetic URL of an archive member.  Bytes are   *)
(* records [zip, data, members]: zip = TRUE for bytes zipfile can open.    *)
(* sha256 is modelled as an injective tagging of the bytes.  Timestamps    *)
(* come from a logical clock that advances at every datetime.utcnow().     *)
(* Document columns title, filesize_bytes and mime_type are not modelled.  *)
(***************************************************************************)
EXTENDS Integers, Sequences, FiniteSets, TLC

VARIABLES
    documents,      \* table documents: sequence of rows, row i has id i
    document_texts, \* table document_texts
    keyword_matches,\* table keyword_matches
    notification_logs, \* table notification_logs
    emails,         \* document ids for which sendmail succeeded, in order
    fs,             \* local files: path -> bytes
    clock,          \* next value of datetime.utcnow()
    tables_created, \* whether init_db() has created the tables
    env,            \* process environment: OPENAI_API_KEY / SMTP_* set or not
    run,            \* the (single) run of run_full_pipeline_for_authority
    fetches,        \* number of _download_binary calls made so far
    callers,        \* concurrent upsert_document callers (SpecConc)
    calls,          \* number of upsert_document calls started (SpecConc)
    zin,            \* input of a direct _handle_zip call (SpecZip)
    zout            \* its result (SpecZip)

vars == <<documents, document_texts, keyword_matches, notification_logs, emails,
          fs, clock, tables_created, env, run, fetches, callers, calls, zin, zout>>

dbvars == <<documents, document_texts, keyword_matches, notification_logs, emails>>
pipevars == <<tables_created, env, run, fetches>>
concvars == <<callers, calls>>
zipvars == <<zin, zout>>

----------------------------------------------------------------------------
(* Bounds *)

MaxCalls == 3       \* upsert_document calls in SpecConc
MaxSeqCalls == 4    \* upsert_document calls in SpecSeq
MaxFetches == 4     \* _download_binary calls over all runs in Spec
MaxMembers == 3     \* members of an archive in SpecZip

----------------------------------------------------------------------------
(* Generic helpers *)

RECURSIVE SeqFilterIdx(_, _, _)
\* indices i of s, ascending from i, for which keep[i]
SeqFilterIdx(s, keep, i) ==
    IF i > Len(s) THEN <<>>
    ELSE IF keep[i] THEN <<i>> \o SeqFilterIdx(s, keep, i + 1)
         ELSE SeqFilterIdx(s, keep, i + 1)

Range(s) == {s[i] : i \in DOMAIN s}

Reverse(s) == [i \in 1..Len(s) |-> s[Len(s) + 1 - i]]

----------------------------------------------------------------------------
(* File names, URLs, bytes *)

FName(stem, ext) == [stem |-> stem, ext |-> ext]

\* str.lower() on the extensions that occur
Lower(ext) == IF ext = ".PDF" THEN ".pdf" ELSE ext

\* Path(name).suffix.lower()
Suffix(name) == Lower(name.ext)

SUPPORTED_EXTENSIONS == {".pdf", ".zip", ".xls", ".xlsx", ".csv"}

\* plain (non-archive) bytes carrying data tag d
FileBytes(d) == [zip |-> FALSE, data |-> d, members |-> <<>>]

\* bytes of a readable zip archive with the given member list
ZipBytes(ms) == [zip |-> TRUE, data |-> "zip", members |-> ms]

\* an archive member: ZipInfo.filename as [dirs, name], is_dir(), its bytes
Member(dirs, name, isdir, d) ==
    [filename |-> [dirs |-> dirs, name |-> name], is_dir |-> isdir,
     bytes |-> FileBytes(d)]

get_file_checksum(content) == <<"sha256", content>>

Url(dir, file) == [dir |-> dir, file |-> file, frag |-> <<>>]

\* f"{meta_zip['url']}#{member.filename}"
InnerUrl(url, member_filename) == [url EXCEPT !.frag = <<member_filename>>]

\* os.path.join(download_dir, filename)
LocalPath(download_dir, filename) ==
    [root |-> download_dir, unzipped |-> "", name |-> filename]

\* Path(download_dir) / f"unzipped_{zip_stem}" / inner_name
InnerLocalPath(download_dir, zip_stem, inner_name) ==
    [root |-> download_dir, unzipped |-> zip_stem, name |-> inner_name]

_build_meta(source_label, url, local_path, filename, content, downloaded_at) ==
    [source |-> source_label, url |-> url, local_path |-> local_path,
     filename |-> filename, checksum |-> get_file_checksum(content),
     downloaded_at |-> downloaded_at]

----------------------------------------------------------------------------
(* Archive expander: extraction_agent._handle_zip *)

\* the member filter of the loop body: directories and unsupported
\* extensions are skipped
MemberKept(member) ==
    /\ ~member.is_dir
    /\ Suffix(member.filename.name) \in SUPPORTED_EXTENSIONS

\* inner_meta built for one retained member
InnerMeta(meta_zip, member, download_dir) ==
    _build_meta(meta_zip.source,
                InnerUrl(meta_zip.url, member.filename),
                InnerLocalPath(download_dir, meta_zip.local_path.name.stem,
                               member.filename.name),
                member.filename.name,
                member.bytes,
                meta_zip.downloaded_at)

RECURSIVE ZipLoop(_, _, _, _)
ZipLoop(meta_zip, members, download_dir, i) ==
    IF i > Len(members) THEN <<>>
    ELSE IF MemberKept(members[i])
         THEN <<[meta |-> InnerMeta(meta_zip, members[i], download_dir),
                 bytes |-> members[i].bytes]>>
              \o ZipLoop(meta_zip, members, download_dir, i + 1)
         ELSE ZipLoop(meta_zip, members, download_dir, i + 1)

\* Result of _handle_zip: raised = TRUE when zipfile.ZipFile rejects the bytes
\* (BadZipFile); otherwise the metas in enumeration order, and the files
\* written (path, bytes) in the same order.
_handle_zip(meta_zip, zip_content, download_dir) ==
    IF ~zip_content.zip
    THEN [raised |-> TRUE, metas |-> <<>>, written |-> <<>>]
    ELSE LET out == ZipLoop(meta_zip, zip_content.members, download_dir, 1)
         IN  [raised |-> FALSE,
              metas |-> [k \in 1..Len(out) |-> out[k].meta],
              written |-> [k \in 1..Len(out) |->
                              [path |-> out[k].meta.local_path,
                               bytes |-> out[k].bytes]]]

RECURSIVE WriteFiles(_, _, _)
\* open(path, "wb").write(bytes) for each entry of written, in order
WriteFiles(files, written, i) ==
    IF i > Len(written) THEN files
    ELSE WriteFiles([p \in DOMAIN files \cup {written[i].path} |->
                        IF p = written[i].path THEN written[i].bytes
                        ELSE files[p]],
                    written, i + 1)

----------------------------------------------------------------------------
(* Document repository: sqlite_db.upsert_document *)

\* ids of the rows the query returns: .filter(Document.url == meta["url"])
ExistingDocs(docs, url) == {i \in DOMAIN docs : docs[i].url = url}

\* the same query ordered by ascending version
LatestOfOldest(docs, url) ==
    LET ex == ExistingDocs(docs, url)
    IN  IF ex = {} THEN {0}
        ELSE {i \in ex : \A j \in ex : docs[j].version >= docs[i].version}

\* candidates for existing_docs[0] under order_by(version.desc()); 0 = no row
LatestOf(docs, url) ==
    LET ex == ExistingDocs(docs, url)
    IN  IF ex = {} THEN {0}
        ELSE {i \in ex : \A j \in ex : docs[j].version <= docs[i].version}

Document(id, meta, version, previous_version_id, now) ==
    [id |-> id, source |-> meta.source, url |-> meta.url,
     filename |-> meta.filename, local_path |-> meta.local_path,
     checksum |-> meta.checksum, version |-> version,
     previous_version_id |-> previous_version_id,
     first_seen_at |-> now, last_seen_at |-> now,
     downloaded_at |-> meta.downloaded_at]

\* session.add(doc); session.commit(): the row gets the next integer id
InsertDocument(docs, meta, version, previous_version_id, now) ==
    Append(docs, Document(Len(docs) + 1, meta, version, previous_version_id, now))

NewVersionOffByOne(latest_row) == latest_row.version

\* new_version = latest.version + 1
NewVersion(latest_row) == latest_row.version + 1

\* a change test that never finds the checksums equal: every call inserts
UpsertWriteNoCompare(docs, latest, meta, now) ==
    IF latest = 0
    THEN [docs |-> InsertDocument(docs, meta, 1, 0, now), ret |-> Len(docs) + 1]
    ELSE [docs |-> InsertDocument(docs, meta, NewVersion(docs[latest]),
                                  docs[latest].id, now),
          ret |-> Len(docs) + 1]

\* a change test against every stored version of the URL instead of the latest
UpsertWriteAnyVersion(docs, latest, meta, now) ==
    IF latest = 0
    THEN [docs |-> InsertDocument(docs, meta, 1, 0, now), ret |-> Len(docs) + 1]
    ELSE IF \E i \in ExistingDocs(docs, meta.url) : docs[i].checksum = meta.checksum
    THEN [docs |-> [docs EXCEPT ![latest].last_seen_at = now], ret |-> latest]
    ELSE [docs |-> InsertDocument(docs, meta, NewVersion(docs[latest]),
                                  docs[latest].id, now),
          ret |-> Len(docs) + 1]

\* the body of upsert_document after the query returned `latest`
\* (a row id, 0 when existing_docs is empty): new table and returned row id
UpsertWrite(docs, latest, meta, now) ==
    IF latest = 0
    THEN [docs |-> InsertDocument(docs, meta, 1, 0, now), ret |-> Len(docs) + 1]
    ELSE IF docs[latest].checksum = meta.checksum
    THEN [docs |-> [docs EXCEPT ![latest].last_seen_at = now], ret |-> latest]
    ELSE [docs |-> InsertDocument(docs, meta, NewVersion(docs[latest]),
                                  docs[latest].id, now),
          ret |-> Len(docs) + 1]

\* upsert_document run without interruption (one caller)
upsert_document(docs, meta, now) ==
    UpsertWrite(docs, CHOOSE l \in LatestOf(docs, meta.url) : TRUE, meta, now)

----------------------------------------------------------------------------
(* The remote world the program observes *)

AUTHORITY_CONFIG ==
    [BCL |-> [source_label |-> "BCL_AnaCredit"],
     ECB |-> [source_label |-> "ECB_AnaCredit"]]

DownloadDir == "data/raw"

CsvA == FName("a", ".csv")
ZipZ == FName("z", ".zip")
UrlHtml == Url("bcl", FName("index", ".html"))
UrlCsv == Url("bcl", CsvA)
UrlZip == Url("bcl", ZipZ)
UrlCsvE1 == Url("ecb/x", CsvA)
UrlCsvE2 == Url("ecb/y", CsvA)

\* data tags of plain files: K1, K2 hold text with keywords, P text without,
\* E no extractable text, X bytes the extractor cannot parse
FileData == {"K1", "K2", "P", "E", "X"}

----------------------------------------------------------------------------
(* Concurrent callers of upsert_document (scheduler process and UI button) *)

Procs == {"scheduler", "ui"}

ConcMetas ==
    {_build_meta("BCL_AnaCredit", u, LocalPath(DownloadDir, u.file), u.file,
                 FileBytes(d), 0) : u \in {UrlCsv, UrlZip}, d \in {"K1", "K2"}}

IdleCaller == [pc |-> "idle", meta |-> CHOOSE m \in ConcMetas : TRUE,
               latest |-> 0, ret |-> 0]

\* lines 109-116: the session runs the SELECT; nothing is locked afterwards
UpsertQuery(p, meta) ==
    /\ callers[p].pc = "idle"
    /\ calls < MaxCalls
    /\ \E l \in LatestOf(documents, meta.url) :
          callers' = [callers EXCEPT ![p] =
                         [pc |-> "queried", meta |-> meta, latest |-> l, ret |-> 0]]
    /\ calls' = calls + 1
    /\ UNCHANGED <<dbvars, fs, clock, pipevars, zipvars>>

\* lines 118-170: now = utcnow(), then INSERT or UPDATE and commit, decided
\* on the rows read by the query
UpsertCommit(p) ==
    /\ callers[p].pc = "queried"
    /\ LET w == UpsertWrite(documents, callers[p].latest, callers[p].meta, clock)
       IN  /\ documents' = w.docs
           /\ callers' = [callers EXCEPT ![p].pc = "idle", ![p].ret = w.ret]
    /\ clock' = clock + 1
    /\ UNCHANGED <<document_texts, keyword_matches, notification_logs, emails,
                   fs, pipevars, calls, zipvars>>

NoRun == [pc |-> "idle"]
NoEnv == [openai |-> FALSE, smtp |-> FALSE]
NoZip == ZipBytes(<<>>)

InitConc ==
    /\ documents = <<>>
    /\ document_texts = <<>>
    /\ keyword_matches = <<>>
    /\ notification_logs = <<>>
    /\ emails = <<>>
    /\ fs = <<>>
    /\ clock = 1
    /\ tables_created = FALSE
    /\ env = NoEnv
    /\ run = NoRun
    /\ fetches = 0
    /\ callers = [p \in Procs |-> IdleCaller]
    /\ calls = 0
    /\ zin = NoZip
    /\ zout = [done |-> FALSE, raised |-> FALSE, metas |-> <<>>]

NextConc ==
    \/ \E p \in Procs, m \in ConcMetas : UpsertQuery(p, m)
    \/ \E p \in Procs : UpsertCommit(p)

SpecConc == InitConc /\ [][NextConc]_vars

----------------------------------------------------------------------------
(* Properties of the document table *)

RowsOf(url) == {i \in DOMAIN documents : documents[i].url = url}

DocUrls == {documents[i].url : i \in DOMAIN documents}

\* C1: under concurrent upsert_document calls for one URL the rows equal
\* those of a serial execution: per URL no two rows share a version, the
\* versions are 1..N without a gap, and no row was inserted whose checksum
\* equals that of the version before it.
C1_SerialOutcome ==
    \A u \in DocUrls :
        /\ \A i, j \in RowsOf(u) :
              documents[i].version = documents[j].version => i = j
        /\ {documents[i].version : i \in RowsOf(u)} = 1..Cardinality(RowsOf(u))
        /\ \A i, j \in RowsOf(u) :
              documents[j].version = documents[i].version + 1
                  => documents[j].checksum # documents[i].checksum

----------------------------------------------------------------------------
(* Direct calls of the archive expander on arbitrary small archives *)

MPdf == Member(<<>>, FName("p", ".pdf"), FALSE, "K1")
MPdfUpper == Member(<<>>, FName("q", ".PDF"), FALSE, "P")
MDocx == Member(<<>>, FName("n", ".docx"), FALSE, "P")
MDir == Member(<<"sub">>, FName("", ""), TRUE, "E")
MNestedZip == Member(<<>>, FName("in", ".zip"), FALSE, "Z")
MSubCsv == Member(<<"sub">>, CsvA, FALSE, "K2")
MSubCsv2 == Member(<<"sub2">>, CsvA, FALSE, "E")
\* a second entry named sub/a.csv with other bytes (zip allows duplicate names)
MSubCsvB == Member(<<"sub">>, CsvA, FALSE, "P")

ZipMembers == {MPdf, MPdfUpper, MDocx, MDir, MNestedZip, MSubCsv, MSubCsv2, MSubCsvB}

SeqsUpTo(S, n) == UNION {[1..k -> S] : k \in 0..n}

\* bytes handed to _handle_zip: readable archives and one unreadable blob
ZipInputs == {ZipBytes(ms) : ms \in SeqsUpTo(ZipMembers, MaxMembers)}
                 \cup {FileBytes("X")}

\* the parent record of the archive, as download_and_collect_metadata builds it
ParentMeta(downloaded_at) ==
    _build_meta(AUTHORITY_CONFIG.BCL.source_label, UrlZip,
                LocalPath(DownloadDir, ZipZ), ZipZ, zin, downloaded_at)

\* zout: the result of the latest call (done, raised, metas), the number n of
\* calls made, the records of the call before (first) and the number of
\* records of the latest call already handed to upsert_document (up)
NotCalled == [done |-> FALSE, raised |-> FALSE, metas |-> <<>>,
              n |-> 0, first |-> <<>>, up |-> 0]

\* the archive is expanded at most twice, the second time after the records
\* of the first expansion were upserted
HandleZip ==
    /\ zout.n < 2
    /\ zout.up = Len(zout.metas)
    /\ LET r == _handle_zip(ParentMeta(clock), zin, DownloadDir)
       IN  /\ zout' = [done |-> TRUE, raised |-> r.raised, metas |-> r.metas,
                       n |-> zout.n + 1, first |-> zout.metas, up |-> 0]
           /\ fs' = WriteFiles(fs, r.written, 1)
    /\ clock' = clock + 1
    /\ UNCHANGED <<dbvars, pipevars, concvars, zin>>

\* upsert_document on the next record of the latest expansion
UpsertMember ==
    /\ zout.up < Len(zout.metas)
    /\ documents' = upsert_document(documents, zout.metas[zout.up + 1], clock).docs
    /\ zout' = [zout EXCEPT !.up = zout.up + 1]
    /\ clock' = clock + 1
    /\ UNCHANGED <<document_texts, keyword_matches, notification_logs, emails,
                   fs, pipevars, concvars, zin>>

InitZip ==
    /\ documents = <<>>
    /\ document_texts = <<>>
    /\ keyword_matches = <<>>
    /\ notification_logs = <<>>
    /\ emails = <<>>
    /\ fs = <<>>
    /\ clock = 1
    /\ tables_created = FALSE
    /\ env = NoEnv
    /\ run = NoRun
    /\ fetches = 0
    /\ callers = [p \in Procs |-> IdleCaller]
    /\ calls = 0
    /\ zin \in ZipInputs
    /\ zout = NotCalled

NextZip == HandleZip \/ UpsertMember

SpecZip == InitZip /\ [][NextZip]_vars

\* the members the documentation of _handle_zip and the design name
DocumentedExtensions == {".pdf", ".xls", ".xlsx", ".csv"}

\* C9: _handle_zip returns one record per member, in enumeration order, for
\* exactly the members that are not directories and whose extension is one
\* of pdf, xls, xlsx, csv; any other member, a nested .zip included, yields
\* no record.
C9_OneRecordPerSupportedMember ==
    (zout.done /\ ~zout.raised) =>
        LET ms == zin.members
            keep == [i \in 1..Len(ms) |->
                        ~ms[i].is_dir
                        /\ Suffix(ms[i].filename.name) \in DocumentedExtensions]
            idx == SeqFilterIdx(ms, keep, 1)
        IN  /\ Len(zout.metas) = Len(idx)
            /\ \A k \in 1..Len(idx) :
                  /\ zout.metas[k].url = InnerUrl(UrlZip, ms[idx[k]].filename)
                  /\ zout.metas[k].checksum = get_file_checksum(ms[idx[k]].bytes)

----------------------------------------------------------------------------
(* Sequential calls of upsert_document by one caller *)

SeqData == {"K1", "K2", "P"}

\* one whole call of upsert_document(meta) (lines 102-172), nothing interleaved
Upsert(u, d) ==
    /\ calls < MaxSeqCalls
    /\ LET meta == _build_meta("BCL_AnaCredit", u, LocalPath(DownloadDir, u.file),
                               u.file, FileBytes(d), clock)
           w == upsert_document(documents, meta, clock)
       IN  /\ documents' = w.docs
           /\ callers' = [callers EXCEPT !["scheduler"] =
                             [pc |-> "idle", meta |-> meta,
                              latest |-> CHOOSE l \in LatestOf(documents, u) : TRUE,
                              ret |-> w.ret]]
    /\ calls' = calls + 1
    /\ clock' = clock + 1
    /\ UNCHANGED <<document_texts, keyword_matches, notification_logs, emails,
                   fs, pipevars, zipvars>>

NextSeq == \E u \in {UrlCsv, UrlZip}, d \in SeqData : Upsert(u, d)

SpecSeq == InitConc /\ [][NextSeq]_vars

\* C2: after sequential upserts the rows of every URL carry versions 1..N
\* without gap or repeat; version 1 has no predecessor and version k > 1
\* points to the row of the same URL with version k-1, whose id is smaller.
C2_VersionChain ==
    /\ \A i \in DOMAIN documents : documents[i].id = i
    /\ \A u \in DocUrls :
          /\ {documents[i].version : i \in RowsOf(u)} = 1..Cardinality(RowsOf(u))
          /\ \A i, j \in RowsOf(u) :
                documents[i].version = documents[j].version => i = j
          /\ \A i \in RowsOf(u) :
                IF documents[i].version = 1
                THEN documents[i].previous_version_id = 0
                ELSE LET p == documents[i].previous_version_id
                     IN  /\ p \in RowsOf(u)
                         /\ documents[p].version = documents[i].version - 1
                         /\ p < i

C2_Witness == \E u \in DocUrls : Cardinality(RowsOf(u)) >= 3

\* the meta and the result of the call a step made
LastMeta == callers["scheduler"].meta
LastRet == callers["scheduler"].ret

SameExceptLastSeen(r1, r2) ==
    [r1 EXCEPT !.last_seen_at = 0] = [r2 EXCEPT !.last_seen_at = 0]

\* C3: an upsert whose checksum equals that of the latest row of the URL
\* inserts nothing, returns that row and changes only its last_seen_at.
C3_UnchangedChecksumOnlyTouches ==
    [][calls' = calls + 1 =>
        LET m == LastMeta'
            l == CHOOSE x \in LatestOf(documents, m.url) : TRUE
        IN  (l # 0 /\ documents[l].checksum = m.checksum) =>
                /\ Len(documents') = Len(documents)
                /\ LastRet' = l
                /\ documents'[l].version = documents[l].version
                /\ documents'[l].last_seen_at = clock
                /\ SameExceptLastSeen(documents'[l], documents[l])
                /\ \A i \in DOMAIN documents : i # l => documents'[i] = documents[i]
                /\ UNCHANGED <<document_texts, keyword_matches,
                               notification_logs, fs>>]_vars

C3_Witness ==
    /\ calls >= 2
    /\ Len(documents) < calls
    /\ LastRet \in DOMAIN documents
    /\ documents[LastRet].last_seen_at > documents[LastRet].first_seen_at

\* C4: an upsert whose checksum differs from the latest row's inserts exactly
\* one row with version latest.version + 1, previous_version_id = latest.id
\* and first_seen_at = last_seen_at; for a URL without rows it inserts
\* exactly one row with version 1 and no predecessor.
C4_ChangedChecksumInserts ==
    [][calls' = calls + 1 =>
        LET m == LastMeta'
            l == CHOOSE x \in LatestOf(documents, m.url) : TRUE
            n == Len(documents) + 1
        IN  (l = 0 \/ documents[l].checksum # m.checksum) =>
                /\ Len(documents') = n
                /\ \A i \in DOMAIN documents : documents'[i] = documents[i]
                /\ LastRet' = n
                /\ documents'[n].url = m.url
                /\ documents'[n].checksum = m.checksum
                /\ documents'[n].first_seen_at = documents'[n].last_seen_at
                /\ documents'[n].version = IF l = 0 THEN 1 ELSE documents[l].version + 1
                /\ documents'[n].previous_version_id =
                       IF l = 0 THEN 0 ELSE documents[l].id]_vars

\* a content that went back to an older version's bytes got a new version
C4_Witness ==
    \E i, j \in DOMAIN documents :
        /\ documents[i].url = documents[j].url
        /\ documents[j].version = documents[i].version + 2
        /\ documents[j].checksum = documents[i].checksum

----------------------------------------------------------------------------
(* Downstream agents: text extraction, translation, keyword scan, email *)

\* keyword_configs rows with is_active, by id (get_active_keywords)
ActiveKeywords == {1, 2}

\* keywords occurring in the text a file with data tag d holds
KeywordsIn(d) == IF d = "K1" THEN {1, 2} ELSE IF d = "K2" THEN {1} ELSE {}

BlankText == [body |-> "", kws |-> {}, translated |-> FALSE]

\* text.strip() is empty
IsBlank(text) == text.body = ""

\* the pdf / excel / csv readers on the bytes of a file: unparseable bytes
\* (X, archive bytes) raise, E has no extractable text
ParseBytes(b) ==
    IF b.zip \/ b.data \in {"X", "Z"}
    THEN [raised |-> TRUE, text |-> BlankText]
    ELSE IF b.data = "E"
    THEN [raised |-> FALSE, text |-> BlankText]
    ELSE [raised |-> FALSE,
          text |-> [body |-> b.data, kws |-> KeywordsIn(b.data),
                    translated |-> FALSE]]

ExtractableExtensions == {".pdf", ".xls", ".xlsx", ".csv"}

\* extract_text_for_document_file: routing by the suffix of the local path;
\* a missing file raises FileNotFoundError
extract_text_for_document_file(files, path) ==
    IF Suffix(path.name) \in ExtractableExtensions
    THEN IF path \in DOMAIN files THEN ParseBytes(files[path])
         ELSE [raised |-> TRUE, text |-> BlankText]
    ELSE [raised |-> FALSE, text |-> BlankText]

\* a save that replaces the last row of the document instead of inserting
save_document_text_replacing(texts, document_id, language, is_original, text) ==
    IF \E i \in DOMAIN texts : texts[i].document_id = document_id
    THEN LET i == CHOOSE x \in DOMAIN texts :
                      /\ texts[x].document_id = document_id
                      /\ \A y \in DOMAIN texts :
                            texts[y].document_id = document_id => y <= x
         IN  [texts EXCEPT ![i].language = language, ![i].is_original = is_original,
                           ![i].full_text = text]
    ELSE Append(texts, [id |-> Len(texts) + 1, document_id |-> document_id,
                        language |-> language, is_original |-> is_original,
                        full_text |-> text])

\* save_document_text: INSERT and commit in a session of its own
save_document_text(texts, document_id, language, is_original, text) ==
    Append(texts, [id |-> Len(texts) + 1, document_id |-> document_id,
                   language |-> language, is_original |-> is_original,
                   full_text |-> text])

\* process_document_for_text: new table of texts, or raised
process_document_for_text(texts, files, document, language) ==
    IF Suffix(document.local_path.name) = ".zip"
    THEN [raised |-> FALSE, texts |-> texts]
    ELSE LET r == extract_text_for_document_file(files, document.local_path)
         IN  IF r.raised THEN [raised |-> TRUE, texts |-> texts]
             ELSE IF IsBlank(r.text) THEN [raised |-> FALSE, texts |-> texts]
             ELSE [raised |-> FALSE,
                   texts |-> save_document_text(texts, document.id, language,
                                                TRUE, r.text)]

\* the orchestrator's query of the original texts of a document,
\* order_by(created_at.desc()): newest first
OriginalTexts(texts, document_id) ==
    LET keep == [i \in 1..Len(texts) |->
                    texts[i].document_id = document_id /\ texts[i].is_original]
    IN  Reverse(SeqFilterIdx(texts, keep, 1))

\* answers of the translation API: an error or a translation
ApiOutcomes == {"error", "ok"}

\* translate_text: without client the text itself is returned
translate_text(text, client, outcome) ==
    IF ~client THEN [raised |-> FALSE, text |-> text]
    ELSE IF outcome = "error" THEN [raised |-> TRUE, text |-> text]
    ELSE [raised |-> FALSE, text |-> [text EXCEPT !.translated = TRUE]]

\* create_translation: translate, then save the translated row
create_translation(texts, text_row, target_lang, client, outcome) ==
    LET t == translate_text(text_row.full_text, client, outcome)
    IN  IF t.raised THEN [raised |-> TRUE, texts |-> texts, row |-> 0]
        ELSE [raised |-> FALSE,
              texts |-> save_document_text(texts, text_row.document_id,
                                           target_lang, FALSE, t.text),
              row |-> Len(texts) + 1]

RECURSIVE SaveMatches(_, _, _)
\* the loop over the active keywords: one save_keyword_match per keyword found
SaveMatches(matches, text_row, kwids) ==
    IF kwids = {} THEN matches
    ELSE LET kw == CHOOSE x \in kwids : \A y \in kwids : x <= y
             next == IF kw \in text_row.full_text.kws
                     THEN Append(matches,
                                 [id |-> Len(matches) + 1,
                                  document_id |-> text_row.document_id,
                                  text_id |-> text_row.id, keyword_id |-> kw])
                     ELSE matches
         IN  SaveMatches(next, text_row, kwids \ {kw})

\* analyse_document_text
analyse_document_text(matches, text_row) ==
    IF IsBlank(text_row.full_text) THEN matches
    ELSE SaveMatches(matches, text_row, ActiveKeywords)

\* min_keywords as the orchestrator passes it
min_keywords == 1

MatchCount(matches, document_id) ==
    Cardinality({i \in DOMAIN matches : matches[i].document_id = document_id})

EnoughMatchesAlways(n, minimum) == TRUE

\* the negation of the test `len(matches) < min_keywords`
EnoughMatches(n, minimum) == ~(n < minimum)

\* send_email_notification: smtp_ok tells whether the SMTP dialogue succeeds.
\* Result: the new notification_logs and the new list of delivered emails.
send_email_notification(logs, sent, docs, matches, document_id, minimum, configured, smtp_ok) ==
    IF ~configured THEN [logs |-> logs, sent |-> sent]
    ELSE IF document_id \notin DOMAIN docs THEN [logs |-> logs, sent |-> sent]
    ELSE IF ~EnoughMatches(MatchCount(matches, document_id), minimum)
    THEN [logs |-> logs, sent |-> sent]
    ELSE [logs |-> Append(logs, [id |-> Len(logs) + 1,
                                 document_id |-> document_id,
                                 status |-> IF smtp_ok THEN "SENT" ELSE "ERROR"]),
          sent |-> IF smtp_ok THEN Append(sent, document_id) ELSE sent]

----------------------------------------------------------------------------
(* The pipeline: orchestrator.run_full_pipeline_for_authority, run by one   *)
(* caller at a time.  run.pc is the position inside the call; "idle" means  *)
(* no call is active and run.outcome tells how the last one ended.          *)

Authorities == {"BCL", "ECB", "FED"}

\* the anchors of the listing page of each configured authority
ListingPage(authority) ==
    IF authority = "BCL" THEN <<UrlHtml, UrlZip, UrlCsv>>
    ELSE <<UrlCsvE1, UrlCsvE2>>

\* extract_document_links: the anchors whose extension is supported
extract_document_links(page) ==
    LET keep == [i \in 1..Len(page) |-> Suffix(page[i].file) \in SUPPORTED_EXTENSIONS]
        idx == SeqFilterIdx(page, keep, 1)
    IN  [k \in 1..Len(idx) |-> page[idx[k]]]

ArchA == ZipBytes(<<MPdf, MDocx>>)
ArchDup == ZipBytes(<<MSubCsv, MSubCsvB, MSubCsv2>>)

\* bytes a server may answer with for a link
ServedBytes(url) ==
    IF Suffix(url.file) = ".zip" THEN {ArchA, ArchDup, FileBytes("X")}
    ELSE {FileBytes(d) : d \in {"K1", "P", "E", "X"}}

\* what the batch before left behind: its authority and the records it
\* upserted (none when it ended before its upsert loop); a batch keeps it
\* until its own upsert loop ends
NoPrev == [authority |-> "", metas |-> <<>>]

PrevOf(r) ==
    IF r.all_meta # <<>> /\ Len(r.docs) = Len(r.all_meta)
    THEN [authority |-> r.authority, metas |-> r.all_meta]
    ELSE NoPrev

IdleRun ==
    [pc |-> "idle", authority |-> "", links |-> <<>>, i |-> 0, all_meta |-> <<>>,
     docs |-> <<>>, j |-> 0, originals |-> <<>>, k |-> 0, translated |-> 0,
     outcome |-> "", error |-> "", failed |-> 0, texts0 |-> 0, scanned |-> <<>>,
     docs0 |-> 0, prev |-> NoPrev]

\* an exception leaves run_full_pipeline_for_authority: nothing catches it
Raised(r, err, at) ==
    [r EXCEPT !.pc = "idle", !.outcome = "raised", !.error = err, !.failed = at,
              !.prev = NoPrev]

Finished(r) == [r EXCEPT !.pc = "idle", !.outcome = "ok", !.prev = NoPrev]

\* lines 28-35 and extraction_agent lines 188-197: the entry check,
\* init_db() and the link discovery, whose request for the listing page
\* may fail (listing_ok = FALSE)
StartRun(authority, listing_ok) ==
    /\ run.pc = "idle"
    /\ IF authority \notin DOMAIN AUTHORITY_CONFIG
       THEN /\ listing_ok
            /\ run' = Raised([IdleRun EXCEPT !.authority = authority], "ValueError", 0)
            /\ UNCHANGED tables_created
       ELSE LET links == extract_document_links(ListingPage(authority))
            IN  /\ fetches + Len(links) <= MaxFetches
                /\ tables_created' = TRUE
                /\ run' = IF listing_ok
                          THEN [IdleRun EXCEPT !.pc = "fetch", !.authority = authority,
                                               !.links = links, !.i = 1,
                                               !.texts0 = Len(document_texts),
                                               !.docs0 = Len(documents),
                                               !.prev = PrevOf(run)]
                          ELSE Raised([IdleRun EXCEPT !.authority = authority],
                                      "ListingError", 0)
    /\ UNCHANGED <<dbvars, fs, clock, env, fetches, concvars, zipvars>>

\* requests.get / raise_for_status fail for candidate i (line 204)
FetchFail ==
    /\ run.pc = "fetch"
    /\ run' = Raised(run, "NetworkError", run.i)
    /\ fetches' = fetches + 1
    /\ UNCHANGED <<dbvars, fs, clock, tables_created, env, concvars, zipvars>>

\* where the run stands once candidate i is done
AfterCandidate(r) ==
    IF r.i < Len(r.links) THEN [r EXCEPT !.i = r.i + 1]
    ELSE IF Len(r.all_meta) = 0 THEN Finished([r EXCEPT !.i = r.i + 1])
    ELSE [r EXCEPT !.i = r.i + 1, !.pc = "upsert", !.j = 1]

\* a loop body that puts the records of the members before the archive's own
CollectMembersFirst(all_meta, meta, inner_metas) ==
    (all_meta \o inner_metas) \o <<meta>>

\* all_meta.append(meta) and, for an archive, all_meta.extend(inner_metas)
Collect(all_meta, meta, inner_metas) ==
    Append(all_meta, meta) \o inner_metas

\* one iteration of the loop of download_and_collect_metadata (lines 199-230)
\* on a successful download
FetchOk(content) ==
    /\ run.pc = "fetch"
    /\ LET url == run.links[run.i]
           filename == url.file
           local_path == LocalPath(DownloadDir, filename)
           meta == _build_meta(AUTHORITY_CONFIG[run.authority].source_label, url,
                               local_path, filename, content, clock)
           files == WriteFiles(fs, <<[path |-> local_path, bytes |-> content]>>, 1)
       IN  /\ content \in ServedBytes(url)
           /\ IF Suffix(filename) = ".zip"
              THEN LET z == _handle_zip(meta, content, DownloadDir)
                   IN  IF z.raised
                       THEN /\ fs' = files
                            /\ run' = Raised([run EXCEPT !.all_meta =
                                                          Collect(@, meta, <<>>)],
                                             "BadZipFile", run.i)
                       ELSE /\ fs' = WriteFiles(files, z.written, 1)
                            /\ run' = AfterCandidate(
                                   [run EXCEPT !.all_meta = Collect(@, meta, z.metas)])
              ELSE /\ fs' = files
                   /\ run' = AfterCandidate(
                          [run EXCEPT !.all_meta = Collect(@, meta, <<>>)])
    /\ fetches' = fetches + 1
    /\ clock' = clock + 1
    /\ UNCHANGED <<dbvars, tables_created, env, concvars, zipvars>>

\* orchestrator lines 37-40: one iteration of the upsert loop
UpsertNext ==
    /\ run.pc = "upsert"
    /\ LET w == upsert_document(documents, run.all_meta[run.j], clock)
       IN  /\ documents' = w.docs
           /\ run' = IF run.j < Len(run.all_meta)
                     THEN [run EXCEPT !.docs = Append(@, w.ret), !.j = run.j + 1]
                     ELSE [run EXCEPT !.docs = Append(@, w.ret), !.j = 1,
                                      !.pc = "extract", !.prev = NoPrev]
    /\ clock' = clock + 1
    /\ UNCHANGED <<document_texts, keyword_matches, notification_logs, emails,
                   fs, tables_created, env, fetches, concvars, zipvars>>

\* orchestrator lines 45-62: content extraction of document j and the query
\* of its original texts
ExtractText ==
    /\ run.pc = "extract"
    /\ LET document == documents[run.docs[run.j]]
           r == process_document_for_text(document_texts, fs, document, "FR")
           originals == OriginalTexts(r.texts, document.id)
       IN  IF r.raised
           THEN /\ run' = Raised(run, "ExtractError", run.j)
                /\ UNCHANGED document_texts
           ELSE /\ document_texts' = r.texts
                /\ run' = IF Len(originals) = 0
                          THEN [run EXCEPT !.originals = originals, !.k = 0,
                                           !.pc = "notify"]
                          ELSE [run EXCEPT !.originals = originals, !.k = 1,
                                           !.pc = "translate"]
    /\ UNCHANGED <<documents, keyword_matches, notification_logs, emails,
                   fs, clock, tables_created, env, fetches, concvars, zipvars>>

\* orchestrator lines 66-70: create_translation of original text k
Translate(outcome) ==
    /\ run.pc = "translate"
    /\ env.openai \/ outcome = "ok"        \* without client the API is not called
    /\ LET ot == document_texts[run.originals[run.k]]
           r == create_translation(document_texts, ot, "EN", env.openai, outcome)
       IN  IF r.raised
           THEN /\ run' = Raised(run, "TranslateError", run.j)
                /\ UNCHANGED document_texts
           ELSE /\ document_texts' = r.texts
                /\ run' = [run EXCEPT !.translated = r.row, !.pc = "scan_original"]
    /\ UNCHANGED <<documents, keyword_matches, notification_logs, emails,
                   fs, clock, tables_created, env, fetches, concvars, zipvars>>

\* a loop body that analyses the original text only
ScanOriginalOnly ==
    /\ run.pc = "scan_original"
    /\ keyword_matches' =
           analyse_document_text(keyword_matches, document_texts[run.originals[run.k]])
    /\ run' = [run EXCEPT !.scanned = Append(@, run.originals[run.k]),
                          !.k = run.k + 1, !.translated = 0,
                          !.pc = IF run.k < Len(run.originals) THEN "translate"
                                 ELSE "notify"]
    /\ UNCHANGED <<documents, document_texts, notification_logs, emails,
                   fs, clock, tables_created, env, fetches, concvars, zipvars>>

\* orchestrator line 73: analyse_document_text(ot); run.scanned lists the
\* text ids in the order the function logs them (keyword_agent line 62)
ScanOriginal ==
    /\ run.pc = "scan_original"
    /\ keyword_matches' =
           analyse_document_text(keyword_matches, document_texts[run.originals[run.k]])
    /\ run' = [run EXCEPT !.pc = "scan_translated",
                          !.scanned = Append(@, run.originals[run.k])]
    /\ UNCHANGED <<documents, document_texts, notification_logs, emails,
                   fs, clock, tables_created, env, fetches, concvars, zipvars>>

\* orchestrator line 74: analyse_document_text(translated), then the next
\* original text or the notification
ScanTranslated ==
    /\ run.pc = "scan_translated"
    /\ keyword_matches' =
           analyse_document_text(keyword_matches, document_texts[run.translated])
    /\ run' = [run EXCEPT !.scanned = Append(@, run.translated),
                          !.k = run.k + 1, !.translated = 0,
                          !.pc = IF run.k < Len(run.originals) THEN "translate"
                                 ELSE "notify"]
    /\ UNCHANGED <<documents, document_texts, notification_logs, emails,
                   fs, clock, tables_created, env, fetches, concvars, zipvars>>

\* orchestrator lines 76-78: send_email_notification, then the next document
Notify(smtp_ok) ==
    /\ run.pc = "notify"
    /\ LET r == send_email_notification(notification_logs, emails, documents,
                                        keyword_matches, run.docs[run.j],
                                        min_keywords, env.smtp, smtp_ok)
       IN  /\ notification_logs' = r.logs
           /\ emails' = r.sent
           /\ smtp_ok \/ r.logs # notification_logs   \* no SMTP dialogue, no failure
    /\ run' = IF run.j < Len(run.docs)
              THEN [run EXCEPT !.j = run.j + 1, !.originals = <<>>, !.k = 0,
                               !.pc = "extract"]
              ELSE Finished([run EXCEPT !.j = run.j + 1, !.originals = <<>>, !.k = 0])
    /\ UNCHANGED <<documents, document_texts, keyword_matches,
                   fs, clock, tables_created, env, fetches, concvars, zipvars>>

Init ==
    /\ documents = <<>>
    /\ document_texts = <<>>
    /\ keyword_matches = <<>>
    /\ notification_logs = <<>>
    /\ emails = <<>>
    /\ fs = <<>>
    /\ clock = 1
    /\ tables_created = FALSE
    /\ env \in [openai : BOOLEAN, smtp : BOOLEAN]
    /\ run = IdleRun
    /\ fetches = 0
    /\ callers = [p \in Procs |-> IdleCaller]
    /\ calls = 0
    /\ zin = NoZip
    /\ zout = NotCalled

Next ==
    \/ \E a \in Authorities, ok \in BOOLEAN : StartRun(a, ok)
    \/ FetchFail
    \/ \E u \in Range(run.links) : \E c \in ServedBytes(u) : FetchOk(c)
    \/ UpsertNext
    \/ ExtractText
    \/ \E o \in ApiOutcomes : Translate(o)
    \/ ScanOriginal
    \/ ScanTranslated
    \/ \E ok \in BOOLEAN : Notify(ok)

Spec == Init /\ [][Next]_vars

----------------------------------------------------------------------------
(* Properties of the batch download *)

\* C5: a failed fetch of one candidate is caught: the call does not raise
\* and goes on to the remaining candidates, so that it ends with the
\* records of the other candidates.
C5_FetchFailureIsolated ==
    run.error = "NetworkError" =>
        /\ run.outcome # "raised"
        /\ run.pc = "idle" => run.i > Len(run.links)

\* C6: a corrupt archive aborts only its own expansion: the archive's own
\* record stays in the batch result and is upserted, and the remaining
\* candidates are still processed.
C6_CorruptArchiveKeepsParent ==
    (run.error = "BadZipFile" /\ run.pc = "idle") =>
        /\ run.outcome # "raised"
        /\ run.i > Len(run.links)
        /\ \E d \in Range(run.docs) : documents[d].url = run.links[run.failed]

----------------------------------------------------------------------------
(* Properties of the stage pipeline *)

StagePcs == {"extract", "translate", "scan_original", "scan_translated", "notify"}
StageErrors == {"ExtractError", "TranslateError"}

\* C7: a stage failure of one document neither aborts the batch call nor
\* keeps the other documents of the batch from completing their stages.
C7_StageFailureIsolated ==
    (run.error \in StageErrors /\ run.pc = "idle") =>
        /\ run.outcome # "raised"
        /\ run.j > Len(run.docs)

IsPrefix(s, t) == Len(s) <= Len(t) /\ \A i \in DOMAIN s : t[i] = s[i]

\* C8: stage outputs are committed as they are produced: no step removes or
\* alters a persisted Document, DocumentText or KeywordMatch row (a Document
\* row may only get a later last_seen_at), and the step in which a stage
\* fails leaves every table as it was.
C8_PersistedOutputsSurviveFailure ==
    [][/\ Len(documents') >= Len(documents)
       /\ \A i \in DOMAIN documents : SameExceptLastSeen(documents'[i], documents[i])
       /\ IsPrefix(document_texts, document_texts')
       /\ IsPrefix(keyword_matches, keyword_matches')
       /\ (run.pc \in StagePcs /\ run'.outcome = "raised") =>
              UNCHANGED <<documents, document_texts, keyword_matches,
                          notification_logs>>]_vars

\* a translation failed on the third document of a batch after the first
\* had its texts and keyword matches stored
C8_Witness ==
    /\ run.pc = "idle" /\ run.outcome = "raised" /\ run.error = "TranslateError"
    /\ run.failed >= 2
    /\ \E t \in DOMAIN document_texts :
          /\ document_texts[t].document_id = run.docs[1]
          /\ ~document_texts[t].is_original
    /\ \E t \in DOMAIN document_texts :
          /\ document_texts[t].document_id = run.docs[run.failed]
          /\ document_texts[t].is_original
    /\ MatchCount(keyword_matches, run.docs[1]) >= 1

\* C10: an email is sent and a NotificationLog row written for a document
\* only if its KeywordMatch rows number at least min_keywords; below the
\* minimum neither happens.
C10_NotifyOnlyAtMinimum ==
    [][LET sent == emails' # emails
           logged == notification_logs' # notification_logs
       IN  /\ (sent \/ logged) =>
                 /\ run.pc = "notify"
                 /\ MatchCount(keyword_matches, run.docs[run.j]) >= min_keywords
                 /\ notification_logs'[Len(notification_logs')].document_id
                        = run.docs[run.j]
           /\ sent => emails' = Append(emails, run.docs[run.j])
           /\ (run.pc = "notify"
               /\ MatchCount(keyword_matches, run.docs[run.j]) < min_keywords)
                  => ~sent /\ ~logged]_vars

\* a finished batch in which one document was notified and another, whose
\* texts matched no keyword, was not
C10_Witness ==
    /\ run.pc = "idle" /\ run.outcome = "ok"
    /\ \E d \in Range(run.docs) :
          /\ d \in Range(emails)
          /\ MatchCount(keyword_matches, d) >= min_keywords
    /\ \E d \in Range(run.docs) :
          /\ MatchCount(keyword_matches, d) < min_keywords
          /\ \E t \in DOMAIN document_texts : document_texts[t].document_id = d
          /\ \A n \in DOMAIN notification_logs : notification_logs[n].document_id # d


\* C11: when the extraction of a document yields no content (blank text,
\* an archive, an extension without extractor) the document goes straight
\* to the notification decision and ends skipped: in that run no text,
\* translation or keyword match is stored for it and no email is sent.
C11_NoContentSkips ==
    [][(run.pc = "extract" /\ run'.outcome # "raised"
        /\ document_texts' = document_texts) =>
           /\ run'.pc = "notify"
           /\ MatchCount(keyword_matches, run.docs[run.j]) < min_keywords]_vars


\* text rows stored since the current (or last) run started
TextsOfRun == {t \in DOMAIN document_texts : t > run.texts0}

\* C12: the stages of a batch run in strict order: every record's bytes are
\* on disk and fingerprinted before its upsert, all upserts precede the
\* first extraction, an original text is translated before it and its
\* translation are scanned, originals and translations are scanned in
\* pairs, and the notification decision of a document is taken once all
\* its originals and the translations made in the run are scanned; a batch
\* that ends normally has scanned every text it stored.
C12_StageOrder ==
    /\ run.pc \in {"upsert"} \cup StagePcs =>
          /\ run.i > Len(run.links)
          /\ \A n \in DOMAIN run.all_meta : run.all_meta[n].local_path \in DOMAIN fs
          /\ \A n \in DOMAIN run.docs :
                /\ documents[run.docs[n]].url = run.all_meta[n].url
                /\ documents[run.docs[n]].checksum = run.all_meta[n].checksum
                /\ documents[run.docs[n]].last_seen_at > run.all_meta[n].downloaded_at
    /\ run.pc \in StagePcs =>
          /\ Len(run.docs) = Len(run.all_meta)
          /\ \A t \in TextsOfRun :
                document_texts[t].document_id \in {run.docs[n] : n \in 1..run.j}
    /\ run.pc = "fetch" => run.docs = <<>> /\ TextsOfRun = {}
    /\ run.pc = "upsert" => TextsOfRun = {}
    /\ \A p \in DOMAIN run.scanned :
          IF p % 2 = 1
          THEN /\ document_texts[run.scanned[p]].is_original
               /\ p = Len(run.scanned) =>
                     /\ run.pc = "scan_translated"
                     /\ run.translated \in TextsOfRun
                     /\ ~document_texts[run.translated].is_original
                     /\ run.translated > run.scanned[p]
          ELSE /\ run.scanned[p] \in TextsOfRun
               /\ ~document_texts[run.scanned[p]].is_original
               /\ document_texts[run.scanned[p]].document_id
                      = document_texts[run.scanned[p - 1]].document_id
               /\ document_texts[run.scanned[p]].full_text.body
                      = document_texts[run.scanned[p - 1]].full_text.body
    /\ run.pc = "notify" =>
          \A t \in DOMAIN document_texts :
              (/\ document_texts[t].document_id = run.docs[run.j]
               /\ document_texts[t].is_original \/ t \in TextsOfRun)
                  => t \in Range(run.scanned)
    /\ (run.pc = "idle" /\ run.outcome = "ok") => TextsOfRun \subseteq Range(run.scanned)

\* a batch that ended normally after scanning two originals and their
\* translations
C12_Witness ==
    /\ run.pc = "idle" /\ run.outcome = "ok"
    /\ Len(run.scanned) >= 4
    /\ Len(emails) >= 1


RECURSIVE KeptInnerUrls(_, _, _)
\* the synthetic URLs of the retained members of an archive, from member i on
KeptInnerUrls(url, members, i) ==
    IF i > Len(members) THEN <<>>
    ELSE (IF ~members[i].is_dir
             /\ Suffix(members[i].filename.name) \in SUPPORTED_EXTENSIONS
          THEN <<InnerUrl(url, members[i].filename)>> ELSE <<>>)
         \o KeptInnerUrls(url, members, i + 1)

RECURSIVE ExpectedUrls(_, _)
\* the URLs of the records of links i.. : each link, followed by the members
\* of the archive stored for it
ExpectedUrls(links, i) ==
    IF i > Len(links) THEN <<>>
    ELSE (<<links[i]>>
          \o (IF Suffix(links[i].file) = ".zip"
              THEN KeptInnerUrls(links[i],
                                 fs[LocalPath(DownloadDir, links[i].file)].members, 1)
              ELSE <<>>))
         \o ExpectedUrls(links, i + 1)

\* C13: the list download_and_collect_metadata returns holds one record per
\* discovered link in discovery order, the records of an archive's members
\* directly after the archive's record, in enumeration order, and before the
\* record of the next link.
C13_DiscoveryOrder ==
    run.pc \in {"upsert"} \cup StagePcs =>
        [n \in 1..Len(run.all_meta) |-> run.all_meta[n].url]
            = ExpectedUrls(run.links, 1)

\* a returned list where an archive with three retained members sits between
\* two other links
C13_Witness ==
    /\ run.pc = "upsert"
    /\ Len(run.all_meta) = 5
    /\ run.all_meta[1].url = UrlZip
    /\ run.all_meta[2].url.frag # <<>>
    /\ run.all_meta[4].url.frag # <<>>
    /\ run.all_meta[4].url # run.all_meta[2].url
    /\ run.all_meta[5].url = UrlCsv


\* C14: after the second expansion of the same archive bytes under the same
\* parent URL the upserts of its records add no Document row.
C14_SecondExpansionNoNewVersion ==
    [][zout.n = 2 => Len(documents') = Len(documents)]_vars

\* retained members of the archive with the same inner path carry the same
\* bytes
SamePathSameBytes(zip_content) ==
    \A i, j \in DOMAIN zip_content.members :
        (/\ MemberKept(zip_content.members[i])
         /\ MemberKept(zip_content.members[j])
         /\ zip_content.members[i].filename = zip_content.members[j].filename)
            => zip_content.members[i].bytes = zip_content.members[j].bytes

\* The part of C14 that holds: the second expansion of the same bytes under
\* the same parent URL fails iff the first did and returns, member by member,
\* the records of the first with URL parent#inner path, equal in everything
\* but the download time; when entries of the same inner path carry the same
\* bytes the upserts of the second expansion add no Document row.
ExpansionDeterministic ==
    [][/\ (zout.n = 1 /\ zout'.n = 2) =>
             /\ zout'.raised = zout.raised
             /\ Len(zout'.metas) = Len(zout.metas)
             /\ \A k \in DOMAIN zout.metas :
                   /\ zout'.metas[k].url.frag # <<>>
                   /\ [zout'.metas[k].url EXCEPT !.frag = <<>>] = UrlZip
                   /\ zout'.metas[k] =
                         [zout.metas[k] EXCEPT !.downloaded_at =
                                                   zout'.metas[k].downloaded_at]
       /\ (zout.n = 2 /\ SamePathSameBytes(zin)) =>
             Len(documents') = Len(documents)]_vars

\* both expansions of an archive with two retained members of different
\* paths are upserted: two rows, both seen again
ExpansionWitness ==
    /\ zout.n = 2
    /\ Len(zout.metas) >= 2
    /\ zout.up = Len(zout.metas)
    /\ zout.metas[1].url # zout.metas[2].url
    /\ zout.metas[1].downloaded_at > zout.first[1].downloaded_at
    /\ Len(documents) >= 2
    /\ \A d \in DOMAIN documents :
          documents[d].last_seen_at > documents[d].first_seen_at


\* the batch observes, record by record, the URLs and checksums the batch
\* before it observed for the same authority
SameObservation(prev, r) ==
    /\ prev.authority = r.authority
    /\ Len(prev.metas) = Len(r.all_meta)
    /\ \A n \in DOMAIN r.all_meta :
          /\ prev.metas[n].url = r.all_meta[n].url
          /\ prev.metas[n].checksum = r.all_meta[n].checksum

\* records of one batch with the same URL carry the same checksum
OneChecksumPerUrl(metas) ==
    \A m, n \in DOMAIN metas :
        metas[m].url = metas[n].url => metas[m].checksum = metas[n].checksum

\* C15: a batch whose links and bytes are those of the batch before adds no
\* Document row, and every upsert of it advances last_seen_at of the row it
\* re-observes.
C15_UnchangedRunAddsNoRow ==
    [][(run.pc = "upsert" /\ SameObservation(run.prev, run)) =>
          /\ Len(documents') = Len(documents)
          /\ LET d == run'.docs[Len(run'.docs)]
             IN  /\ documents'[d].url = run.all_meta[run.j].url
                 /\ documents'[d].last_seen_at > documents[d].last_seen_at]_vars

\* exactly one record of the batch, a top-level one, differs in checksum from
\* the batch before; n is its position
OneChanged(prev, r, n) ==
    /\ prev.authority = r.authority
    /\ Len(prev.metas) = Len(r.all_meta)
    /\ n \in DOMAIN r.all_meta
    /\ r.all_meta[n].url.frag = <<>>
    /\ \A m \in DOMAIN r.all_meta :
          /\ prev.metas[m].url = r.all_meta[m].url
          /\ (prev.metas[m].checksum = r.all_meta[m].checksum) <=> (m # n)

\* C16: when one top-level file changed since the batch before, the upsert
\* of its record adds the next version of its URL, linked to the version
\* before, and the upserts of the other records add no row and change
\* nothing but last_seen_at.
C16_OneChangeOneRow ==
    [][\A n \in DOMAIN run.all_meta :
          (run.pc = "upsert" /\ OneChanged(run.prev, run, n)) =>
              IF run.j = n
              THEN /\ Len(documents') = Len(documents) + 1
                   /\ \E v1 \in DOMAIN documents :
                         /\ documents[v1].url = run.all_meta[n].url
                         /\ documents' = Append(documents,
                               Document(Len(documents) + 1, run.all_meta[n],
                                        documents[v1].version + 1,
                                        documents[v1].id, clock))
                         /\ \A o \in ExistingDocs(documents, run.all_meta[n].url) :
                               documents[o].version <= documents[v1].version
              ELSE /\ Len(documents') = Len(documents)
                   /\ \A d \in DOMAIN documents :
                         SameExceptLastSeen(documents'[d], documents[d])]_vars

\* C16's property for batches whose records of one URL agree
OneChangeDistinctUrls ==
    [][\A n \in DOMAIN run.all_meta :
          (run.pc = "upsert" /\ OneChanged(run.prev, run, n)
           /\ OneChecksumPerUrl(run.all_meta)) =>
              IF run.j = n
              THEN /\ Len(documents') = Len(documents) + 1
                   /\ \E v1 \in DOMAIN documents :
                         /\ documents[v1].url = run.all_meta[n].url
                         /\ documents' = Append(documents,
                               Document(Len(documents) + 1, run.all_meta[n],
                                        documents[v1].version + 1,
                                        documents[v1].id, clock))
              ELSE /\ Len(documents') = Len(documents)
                   /\ \A d \in DOMAIN documents :
                         SameExceptLastSeen(documents'[d], documents[d])]_vars

\* C15's property for batches whose records of one URL agree
UnchangedRunDistinctUrls ==
    [][(run.pc = "upsert" /\ SameObservation(run.prev, run)
        /\ OneChecksumPerUrl(run.all_meta)) =>
          /\ Len(documents') = Len(documents)
          /\ LET d == run'.docs[Len(run'.docs)]
             IN  /\ documents'[d].url = run.all_meta[run.j].url
                 /\ documents'[d].last_seen_at > documents[d].last_seen_at]_vars


\* C17: a call for an unknown authority raises at entry, before the tables
\* are created and before any discovery, fetch, file write or upsert, and
\* changes nothing that is persisted; no other error ends a batch call.
C17_UnknownAuthorityOnlyFatal ==
    [][(run' # run /\ run'.outcome = "raised") =>
          /\ run'.error = "ValueError"
          /\ run'.authority \notin DOMAIN AUTHORITY_CONFIG
          /\ UNCHANGED <<dbvars, fs, tables_created, fetches>>]_vars

\* the entry check alone: a call for an unknown authority raises ValueError
\* and leaves tables, files and the database as they were
UnknownAuthorityRaisesAtEntry ==
    [][(run.pc = "idle" /\ run' # run
        /\ run'.authority \notin DOMAIN AUTHORITY_CONFIG) =>
          /\ run'.outcome = "raised" /\ run'.error = "ValueError"
          /\ run'.pc = "idle" /\ run'.links = <<>> /\ run'.all_meta = <<>>
          /\ UNCHANGED <<dbvars, fs, tables_created, fetches>>]_vars

\* C18: the change test looks at the latest version only: consecutive
\* versions of a URL never carry the same checksum, and an upsert whose
\* checksum equals that of an older version but not that of the newest one
\* inserts a new version after the newest.
C18_ComparesWithLatestOnly ==
    [][calls' = calls + 1 =>
        /\ \A u \in DocUrls' : \A i, j \in DOMAIN documents' :
              (/\ documents'[i].url = u /\ documents'[j].url = u
               /\ documents'[j].version = documents'[i].version + 1)
                  => documents'[j].checksum # documents'[i].checksum
        /\ LET m == LastMeta'
               rows == {i \in DOMAIN documents : documents[i].url = m.url}
           IN  \A old, top \in rows :
                  (/\ \A i \in rows : documents[i].version <= documents[top].version
                   /\ documents[old].checksum = m.checksum
                   /\ documents[top].checksum # m.checksum)
                      => /\ Len(documents') = Len(documents) + 1
                         /\ LastRet' = Len(documents) + 1
                         /\ documents'[LastRet'].version = documents[top].version + 1
                         /\ documents'[LastRet'].checksum = documents[old].checksum]_vars

\* the last call brought back the bytes of version 1 and was stored as
\* version 3
C18_Witness ==
    /\ LastRet \in DOMAIN documents
    /\ documents[LastRet].version = 3
    /\ \E i, j \in RowsOf(documents[LastRet].url) :
          /\ documents[i].version = 1 /\ documents[j].version = 2
          /\ documents[i].checksum = documents[LastRet].checksum
          /\ documents[j].checksum # documents[LastRet].checksum


\* C19: while the downstream stages of a batch run, the file at the
\* local_path of every record of the batch holds the bytes the record's
\* checksum was computed from.
C19_FilesHoldRecordBytes ==
    run.pc \in StagePcs =>
        \A n \in DOMAIN run.all_meta :
            /\ run.all_meta[n].local_path \in DOMAIN fs
            /\ get_file_checksum(fs[run.all_meta[n].local_path])
                   = run.all_meta[n].checksum

\* the same for batches whose records have pairwise different local paths
DistinctPathsHoldRecordBytes ==
    (/\ run.pc \in StagePcs
     /\ \A m, n \in DOMAIN run.all_meta :
           run.all_meta[m].local_path = run.all_meta[n].local_path => m = n) =>
        \A n \in DOMAIN run.all_meta :
            get_file_checksum(fs[run.all_meta[n].local_path])
                = run.all_meta[n].checksum

\* document d had an original text before the current batch started
ProcessedBefore(d) ==
    \E t \in 1..run.texts0 :
        document_texts[t].document_id = d /\ document_texts[t].is_original

\* C20: the stages of a batch add no DocumentText and no KeywordMatch row for
\* a document that an earlier batch already processed and that the upsert
\* returned unchanged (same Document id).
C20_RerunAddsNoRows ==
    [][(run.pc \in StagePcs /\ ProcessedBefore(run.docs[run.j])) =>
          /\ Len(document_texts') = Len(document_texts)
          /\ Len(keyword_matches') = Len(keyword_matches)]_vars

====
